---- MODULE Spec2Model ----
(***************************************************************************)
(* Model of python-import-copier (src/src/extension.ts).                   *)
(*                                                                         *)
(* The core, the part after "import * as path from 'path'":                *)
(* normalizeSourceRoot, splitPath, hasPrefix, toPythonModulePath and       *)
(* extractSymbolNameFromLine, each called once on inputs of bounded sets   *)
(* (Spec, SpecExtract).  The command, the part before it: one run of       *)
(* copyPythonImport, with one action for each await and the answers of     *)
(* vscode chosen freely (SpecCommand).                                     *)
(*                                                                         *)
(* A JavaScript string is a sequence of one-character strings.  The value  *)
(* undefined is the one-element sequence Undefined, which no string        *)
(* equals.  The functions of Node's path module depend on the host         *)
(* (path.posix or path.win32); the host is the variable platform, which    *)
(* is also what process.platform reads.  Paths carry no drive letter: ':'  *)
(* is in no alphabet.                                                      *)
(***************************************************************************)
EXTENDS Integers, Sequences, FiniteSets

\* ------------------------------------------------------------------ bounds

\* Deepest directory nesting of a definition file below the prefix it has.
MaxDepth == 2

\* Longest raw string handed to normalizeSourceRoot and to splitPath.
MaxRawLen == 4

\* Longest segment sequence handed to hasPrefix.
MaxSegs == 2

\* Most tokens a source line handed to extractSymbolNameFromLine is made of.
MaxTokens == 4

\* Longest array of definitions the definition provider answers with.
MaxDefinitions == 2

\* ------------------------------------------------------- JavaScript strings

Undefined == <<"undefined">>

UpperCaseLetters ==
  <<"A","B","C","D","E","F","G","H","I","J","K","L","M",
    "N","O","P","Q","R","S","T","U","V","W","X","Y","Z">>

LowerCaseLetters ==
  <<"a","b","c","d","e","f","g","h","i","j","k","l","m",
    "n","o","p","q","r","s","t","u","v","w","x","y","z">>

Digits == {"0","1","2","3","4","5","6","7","8","9"}

Range(f) == {f[i] : i \in DOMAIN f}

SetMin(S) == CHOOSE x \in S : \A y \in S : x <= y

SetMax(S) == CHOOSE x \in S : \A y \in S : y <= x

\* String.prototype.toLowerCase, one character.
ToLowerChar(c) ==
  IF \E i \in 1..26 : UpperCaseLetters[i] = c
  THEN LowerCaseLetters[CHOOSE i \in 1..26 : UpperCaseLetters[i] = c]
  ELSE c

\* String.prototype.toLowerCase.
ToLowerCase(s) == [i \in 1..Len(s) |-> ToLowerChar(s[i])]

\* The white space String.prototype.trim removes (the part in the alphabets).
IsWhiteSpace(c) == c \in {" ", "\t", "\n", "\r"}

\* String.prototype.trim.
Trim(s) ==
  LET keep == {i \in 1..Len(s) : ~IsWhiteSpace(s[i])}
  IN  IF keep = {} THEN <<>> ELSE SubSeq(s, SetMin(keep), SetMax(keep))

\* String.prototype.startsWith.
StartsWith(s, p) == Len(p) <= Len(s) /\ SubSeq(s, 1, Len(p)) = p

\* Array.prototype.join.
RECURSIVE Join(_, _)
Join(segs, sep) ==
  IF segs = <<>> THEN <<>>
  ELSE IF Len(segs) = 1 THEN segs[1]
  ELSE segs[1] \o sep \o Join(Tail(segs), sep)

\* Array.prototype.filter(Boolean) on an array of strings.
RECURSIVE FilterBoolean(_)
FilterBoolean(arr) ==
  IF arr = <<>> THEN <<>>
  ELSE IF arr[1] = <<>> THEN FilterBoolean(Tail(arr))
  ELSE <<arr[1]>> \o FilterBoolean(Tail(arr))

\* The character class [\\/] of the regular expressions of the source.
SlashOrBackslash == {"/", "\\"}

IsSlashOrBackslash(c) == c \in SlashOrBackslash

\* First index >= i of s whose character is not a separator, Len(s)+1 if none.
RECURSIVE SkipSeparators(_, _, _)
SkipSeparators(s, i, seps) ==
  IF i > Len(s) \/ s[i] \notin seps THEN i ELSE SkipSeparators(s, i + 1, seps)

\* String.prototype.split on a run of separators, from index i with the
\* piece cur collected so far: empty pieces at either end are kept.
RECURSIVE SplitFrom(_, _, _, _)
SplitFrom(s, i, cur, seps) ==
  IF i > Len(s) THEN <<cur>>
  ELSE IF s[i] \in seps
       THEN <<cur>> \o SplitFrom(s, SkipSeparators(s, i, seps), <<>>, seps)
       ELSE SplitFrom(s, i + 1, Append(cur, s[i]), seps)

\* input.split(/[\\/]+/)
SplitOnSeparatorRuns(s) == SplitFrom(s, 1, <<>>, SlashOrBackslash)

\* s.replace(/^([/\\])+|([/\\])+$/g, '')
StripSeparatorRuns(s) ==
  LET keep == {i \in 1..Len(s) : ~IsSlashOrBackslash(s[i])}
  IN  IF keep = {} THEN <<>> ELSE SubSeq(s, SetMin(keep), SetMax(keep))

\* ------------------------------------------------------ Node's path module

Hosts == {"linux", "win32"}

\* path.sep of the host.
PathSep(host) == IF host = "win32" THEN "\\" ELSE "/"

\* The characters isPathSeparator of path.win32 accepts on win32, and
\* isPosixPathSeparator of path.posix elsewhere.
PathSeparators(host) == IF host = "win32" THEN {"/", "\\"} ELSE {"/"}

IsPathSeparator(c, host) == c \in PathSeparators(host)

\* The components of a path string: its maximal separator-free runs.
PathComponents(p, host) ==
  FilterBoolean(SplitFrom(p, 1, <<>>, PathSeparators(host)))

\* normalizeString of Node's path module, on components: '.' and empty
\* components vanish, '..' removes the component before it, or stays when
\* there is none to remove and the path is relative.
RECURSIVE NormalizeString(_, _, _)
NormalizeString(comps, res, allowAboveRoot) ==
  IF comps = <<>> THEN res
  ELSE LET c == comps[1]
           rest == Tail(comps)
       IN  IF c = <<".">> THEN NormalizeString(rest, res, allowAboveRoot)
           ELSE IF c = <<".", ".">>
           THEN IF res # <<>> /\ res[Len(res)] # <<".", ".">>
                THEN NormalizeString(rest, SubSeq(res, 1, Len(res) - 1),
                                     allowAboveRoot)
                ELSE IF allowAboveRoot
                THEN NormalizeString(rest, Append(res, c), allowAboveRoot)
                ELSE NormalizeString(rest, res, allowAboveRoot)
           ELSE NormalizeString(rest, Append(res, c), allowAboveRoot)

\* The UNC root path.win32.normalize looks for: two separators, a server
\* name, separators, a share name.  [matched, server, shareStart, shareEnd]
UncRoot(p) ==
  LET IsSep(c) == IsPathSeparator(c, "win32")
      NonSepEnd(i) ==
        LET stops == {j \in i..Len(p) : IsSep(p[j])}
        IN  IF stops = {} THEN Len(p) + 1 ELSE SetMin(stops)
      j1 == NonSepEnd(3)
      j2 == SkipSeparators(p, j1, PathSeparators("win32"))
      j3 == NonSepEnd(j2)
  IN  IF Len(p) >= 2 /\ IsSep(p[1]) /\ IsSep(p[2])
         /\ j1 <= Len(p) /\ j1 # 3 /\ j2 <= Len(p) /\ j2 # j1
      THEN [matched |-> TRUE, server |-> SubSeq(p, 3, j1 - 1),
            shareStart |-> j2, shareEnd |-> j3]
      ELSE [matched |-> FALSE, server |-> <<>>, shareStart |-> 0,
            shareEnd |-> 0]

\* path.normalize
PathNormalize(p, host) ==
  LET sep == PathSep(host)
      isAbsolute == p # <<>> /\ IsPathSeparator(p[1], host)
      trailing == p # <<>> /\ IsPathSeparator(p[Len(p)], host)
      unc == IF host = "win32" THEN UncRoot(p)
             ELSE [matched |-> FALSE, server |-> <<>>, shareStart |-> 0,
                   shareEnd |-> 0]
      hasDevice == unc.matched /\ unc.shareEnd <= Len(p)
      device == <<"\\", "\\">> \o unc.server \o <<"\\">>
                  \o SubSeq(p, unc.shareStart, unc.shareEnd - 1)
      body == IF hasDevice THEN SubSeq(p, unc.shareEnd, Len(p)) ELSE p
      joined == Join(NormalizeString(PathComponents(body, host), <<>>,
                                     ~isAbsolute), <<sep>>)
      tail0 == IF joined = <<>> /\ ~isAbsolute THEN <<".">> ELSE joined
      tail == IF tail0 # <<>> /\ trailing THEN Append(tail0, sep) ELSE tail0
  IN  IF p = <<>> THEN <<".">>
      ELSE IF unc.matched /\ unc.shareEnd = Len(p) + 1
      THEN <<"\\", "\\">> \o unc.server \o <<"\\">>
             \o SubSeq(p, unc.shareStart, Len(p)) \o <<"\\">>
      ELSE IF hasDevice THEN device \o <<"\\">> \o tail
      ELSE IF isAbsolute THEN <<sep>> \o tail
      ELSE tail

\* path.resolve of one absolute path without drive: its components.
PathResolve(p, host) ==
  NormalizeString(PathComponents(p, host), <<>>, FALSE)

\* Length of the longest common prefix of two component lists; path.win32
\* compares the lowercased paths.
RECURSIVE CommonPrefixLen(_, _, _)
CommonPrefixLen(a, b, host) ==
  IF a = <<>> \/ b = <<>> THEN 0
  ELSE IF (IF host = "win32" THEN ToLowerCase(a[1]) = ToLowerCase(b[1])
           ELSE a[1] = b[1])
       THEN 1 + CommonPrefixLen(Tail(a), Tail(b), host)
       ELSE 0

\* path.relative(from, to) for absolute paths on one drive.
PathRelative(from, to, host) ==
  LET f == PathResolve(from, host)
      t == PathResolve(to, host)
      n == CommonPrefixLen(f, t, host)
      ups == [i \in 1..(Len(f) - n) |-> <<".", ".">>]
  IN  IF n = Len(f) /\ n = Len(t) THEN <<>>
      ELSE Join(ups \o SubSeq(t, n + 1, Len(t)), <<PathSep(host)>>)

\* path.isAbsolute, for a path without drive letter.
PathIsAbsolute(p, host) == p # <<>> /\ IsPathSeparator(p[1], host)

\* Index of the last character of p that is no separator, 0 if none.
LastNonSeparator(p, host) ==
  LET idx == {i \in 1..Len(p) : ~IsPathSeparator(p[i], host)}
  IN  IF idx = {} THEN 0 ELSE SetMax(idx)

\* path.dirname
PathDirname(p, host) ==
  LET hasRoot == p # <<>> /\ IsPathSeparator(p[1], host)
      last == LastNonSeparator(p, host)
      seps == {i \in 2..(last - 1) : IsPathSeparator(p[i], host)}
  IN  IF p = <<>> THEN <<".">>
      ELSE IF seps = {}
      THEN IF hasRoot THEN <<p[1]>> ELSE <<".">>
      ELSE IF host # "win32" /\ hasRoot /\ SetMax(seps) = 2
      THEN <<"/", "/">>
      ELSE SubSeq(p, 1, SetMax(seps) - 1)

\* path.basename without a suffix argument.
PathBasename(p, host) ==
  LET last == LastNonSeparator(p, host)
      seps == {i \in 1..last : IsPathSeparator(p[i], host)}
      start == IF seps = {} THEN 1 ELSE SetMax(seps) + 1
  IN  IF last = 0 THEN <<>> ELSE SubSeq(p, start, last)

\* path.extname: from the last '.' of the last component, empty when there
\* is no '.', when only dots (or nothing) precede it, or for '..'.
PathExtname(p, host) ==
  LET base == PathBasename(p, host)
      dots == {i \in 1..Len(base) : base[i] = "."}
      startDot == SetMax(dots)
      nonDotBefore == \E i \in 1..(startDot - 1) : base[i] # "."
  IN  IF dots = {} THEN <<>>
      ELSE IF nonDotBefore THEN SubSeq(base, startDot, Len(base))
      ELSE IF startDot = 1 THEN <<>>
      ELSE IF startDot = Len(base) /\ startDot = 2 THEN <<>>
      ELSE SubSeq(base, startDot, Len(base))

\* ------------------------------------------------- src/src/extension.ts

\* export function normalizeSourceRoot(raw: string): string
normalizeSourceRoot(raw, host) ==
  LET trimmed == Trim(raw)
  IN  IF trimmed = <<>> THEN <<>>
      ELSE StripSeparatorRuns(PathNormalize(trimmed, host))

\* splitPath without its filter(Boolean): the empty pieces that split
\* leaves at a leading or trailing separator stay.
splitPathKeepingEmpty(input) ==
  IF input = <<>> \/ input = <<".">> THEN <<>>
  ELSE SplitOnSeparatorRuns(input)

\* export function splitPath(input: string): string[]
splitPath(input) ==
  IF input = <<>> \/ input = <<".">> THEN <<>>
  ELSE FilterBoolean(SplitOnSeparatorRuns(input))

\* The loop of hasPrefix, from index i on.
RECURSIVE hasPrefixLoop(_, _, _, _)
hasPrefixLoop(input, prefix, caseSensitive, i) ==
  IF i > Len(prefix) THEN TRUE
  ELSE LET left == IF caseSensitive THEN input[i] ELSE ToLowerCase(input[i])
           right == IF caseSensitive THEN prefix[i]
                    ELSE ToLowerCase(prefix[i])
       IN  IF left # right THEN FALSE
           ELSE hasPrefixLoop(input, prefix, caseSensitive, i + 1)

\* hasPrefix without its test for an empty prefix.
hasPrefixAcceptingEmpty(input, prefix, caseSensitive) ==
  IF Len(prefix) > Len(input) THEN FALSE
  ELSE hasPrefixLoop(input, prefix, caseSensitive, 1)

\* export function hasPrefix(input, prefix, caseSensitive = true): boolean
hasPrefix(input, prefix, caseSensitive) ==
  IF Len(prefix) = 0 \/ Len(prefix) > Len(input) THEN FALSE
  ELSE hasPrefixLoop(input, prefix, caseSensitive, 1)

\* [A-Za-z_]
IsIdentifierStart(c) ==
  c \in Range(UpperCaseLetters) \cup Range(LowerCaseLetters) \cup {"_"}

\* isValidPythonIdentifier with a pattern that is not anchored at the end.
isValidPythonIdentifierUnanchored(name) ==
  name # <<>> /\ IsIdentifierStart(name[1])

\* function isValidPythonIdentifier(name: string): boolean
isValidPythonIdentifier(name) ==
  /\ name # <<>>
  /\ IsIdentifierStart(name[1])
  /\ \A i \in 2..Len(name) : IsIdentifierStart(name[i]) \/ name[i] \in Digits

\* The case sensitivity read from process.platform alone.
caseSensitiveForHostOnly(options, host) == host # "win32"

\* The value toPythonModulePath gives hasPrefix as caseSensitive:
\* (options.platform ?? process.platform) !== 'win32'
caseSensitiveFor(options, host) ==
  (IF options.platform # "absent" THEN options.platform ELSE host) # "win32"

\* The splice with a count of one: segments.splice(0, 1).
stripSourceRootOneSegment(segments, sourceSegments, caseSensitive) ==
  IF hasPrefix(segments, sourceSegments, caseSensitive)
  THEN Tail(segments)
  ELSE segments

\* segments.splice(0, sourceSegments.length) when hasPrefix holds.
stripSourceRoot(segments, sourceSegments, caseSensitive) ==
  IF hasPrefix(segments, sourceSegments, caseSensitive)
  THEN SubSeq(segments, Len(sourceSegments) + 1, Len(segments))
  ELSE segments

InitStem == <<"_", "_", "i", "n", "i", "t", "_", "_">>

DotPy == <<".", "p", "y">>

DotPyi == <<".", "p", "y", "i">>

NoLocals ==
  [at |-> "none", relativePath |-> <<>>, ext |-> <<>>, stem |-> <<>>,
   dirSegments |-> <<>>, segments |-> <<>>, prefixTested |-> FALSE,
   caseSensitive |-> FALSE, ret |-> Undefined]

\* export function toPythonModulePath(filePath, workspaceRootPath,
\* sourceRoot, options = {}): string | undefined.  The value is the record
\* of the locals at the return statement reached (at) with the result (ret).
toPythonModulePath(filePath, workspaceRootPath, sourceRoot, options, host) ==
  LET relativePath == PathRelative(workspaceRootPath, filePath, host)
      relativeDir == PathDirname(relativePath, host)
      baseName == PathBasename(relativePath, host)
      ext == ToLowerCase(PathExtname(baseName, host))
      stem == IF ext # <<>> THEN SubSeq(baseName, 1, Len(baseName) - Len(ext))
              ELSE baseName
      isPythonFile == ext = DotPy \/ ext = DotPyi
      dirSegments == splitPath(relativeDir)
      sourceSegments == splitPath(sourceRoot)
      caseSensitive == caseSensitiveFor(options, host)
      segments == IF sourceRoot # <<>>
                  THEN stripSourceRoot(dirSegments, sourceSegments,
                                       caseSensitive)
                  ELSE dirSegments
      workspacePackageName ==
        IF options.workspacePackageName = Undefined THEN Undefined
        ELSE Trim(options.workspacePackageName)
      at5 == [NoLocals EXCEPT !.relativePath = relativePath, !.ext = ext,
                !.stem = stem, !.dirSegments = dirSegments,
                !.segments = segments,
                !.prefixTested = (sourceRoot # <<>>),
                !.caseSensitive = (sourceRoot # <<>> /\ caseSensitive)]
  IN  IF \/ relativePath = <<>>
         \/ StartsWith(relativePath, <<".", ".">>)
         \/ PathIsAbsolute(relativePath, host)
      THEN [NoLocals EXCEPT !.at = "outside", !.relativePath = relativePath]
      ELSE IF ~isPythonFile
      THEN [NoLocals EXCEPT !.at = "extension", !.relativePath = relativePath,
              !.ext = ext, !.stem = stem]
      ELSE IF stem = InitStem
      THEN IF Len(segments) > 0
           THEN [at5 EXCEPT !.at = "package", !.ret = Join(segments, <<".">>)]
           ELSE IF /\ workspacePackageName # Undefined
                   /\ workspacePackageName # <<>>
                   /\ isValidPythonIdentifier(workspacePackageName)
           THEN [at5 EXCEPT !.at = "workspacePackage",
                   !.ret = workspacePackageName]
           ELSE [at5 EXCEPT !.at = "rootInit"]
      ELSE LET pushed == Append(segments, stem)
           IN  IF Len(pushed) > 0
               THEN [at5 EXCEPT !.at = "module", !.segments = pushed,
                       !.ret = Join(pushed, <<".">>)]
               ELSE [at5 EXCEPT !.at = "empty", !.segments = pushed]

\* ------------------------------------------- the regular expressions

\* The white space \s matches (the part in the alphabets).
WhiteSpaceChars == {" ", "\t", "\n", "\r"}

IdentifierStartChars ==
  Range(UpperCaseLetters) \cup Range(LowerCaseLetters) \cup {"_"}

IdentifierChars == IdentifierStartChars \cup Digits

\* The pieces the patterns are made of: a character class, negated or not,
\* taken once (x), one or more times (x+) or any number of times (x*).
One(set) == [set |-> set, neg |-> FALSE, min |-> 1, many |-> FALSE]

Star(set) == [set |-> set, neg |-> FALSE, min |-> 0, many |-> TRUE]

Plus(set) == [set |-> set, neg |-> FALSE, min |-> 1, many |-> TRUE]

PlusNot(set) == [set |-> set, neg |-> TRUE, min |-> 1, many |-> TRUE]

\* A literal word: each of its characters once.
Literal(word) == [i \in 1..Len(word) |-> One({word[i]})]

InClass(c, atom) == (c \in atom.set) # atom.neg

\* The most characters of s from index i on that the k-th atom can take.
MaxRun(atoms, k, s, i) ==
  IF k > Len(atoms) THEN 0
  ELSE LET stops == {j \in i..Len(s) : ~InClass(s[j], atoms[k])}
           run == (IF stops = {} THEN Len(s) + 1 ELSE SetMin(stops)) - i
       IN  IF atoms[k].many THEN run ELSE IF run >= 1 THEN 1 ELSE 0

\* The backtracking match of a regular expression: the k-th atom takes n
\* characters of s from index i on and the rest of the pattern must match
\* what follows; when it does not, the atom takes one character less.
\* ends[k] is the index behind the k-th atom's characters.
RECURSIVE RegexMatchFrom(_, _, _, _, _, _)
RegexMatchFrom(atoms, anchoredEnd, s, k, i, n) ==
  IF k > Len(atoms)
  THEN [ok |-> (~anchoredEnd \/ i = Len(s) + 1), ends |-> <<>>]
  ELSE IF n < atoms[k].min THEN [ok |-> FALSE, ends |-> <<>>]
  ELSE LET r == RegexMatchFrom(atoms, anchoredEnd, s, k + 1, i + n,
                               MaxRun(atoms, k + 1, s, i + n))
       IN  IF r.ok THEN [ok |-> TRUE, ends |-> <<i + n>> \o r.ends]
           ELSE RegexMatchFrom(atoms, anchoredEnd, s, k, i, n - 1)

\* line.match(pattern)?.[1] for a pattern anchored at the start: the text
\* of the capture group, which is the atoms group and group + 1, of the
\* first alternative that matches; Undefined when none matches.
RECURSIVE RegexCapture(_, _, _)
RegexCapture(pattern, s, alt) ==
  IF alt > Len(pattern.alternatives) THEN Undefined
  ELSE LET atoms == pattern.alternatives[alt]
           m == RegexMatchFrom(atoms, pattern.anchoredEnd, s, 1, 1,
                               MaxRun(atoms, 1, s, 1))
           from == IF pattern.group = 1 THEN 1 ELSE m.ends[pattern.group - 1]
       IN  IF m.ok THEN SubSeq(s, from, m.ends[pattern.group + 1] - 1)
           ELSE RegexCapture(pattern, s, alt + 1)

\* ([A-Za-z_][A-Za-z0-9_]*)
IdentifierGroup == <<One(IdentifierStartChars), Star(IdentifierChars)>>

\* /^\s*async\s+def\s+([A-Za-z_][A-Za-z0-9_]*)\s*\(/
patternAsyncDef ==
  [alternatives |->
     << <<Star(WhiteSpaceChars)>> \o Literal(<<"a", "s", "y", "n", "c">>)
          \o <<Plus(WhiteSpaceChars)>> \o Literal(<<"d", "e", "f">>)
          \o <<Plus(WhiteSpaceChars)>> \o IdentifierGroup
          \o <<Star(WhiteSpaceChars), One({"("})>> >>,
   anchoredEnd |-> FALSE, group |-> 12]

\* /^\s*def\s+([A-Za-z_][A-Za-z0-9_]*)\s*\(/
patternDef ==
  [alternatives |->
     << <<Star(WhiteSpaceChars)>> \o Literal(<<"d", "e", "f">>)
          \o <<Plus(WhiteSpaceChars)>> \o IdentifierGroup
          \o <<Star(WhiteSpaceChars), One({"("})>> >>,
   anchoredEnd |-> FALSE, group |-> 6]

\* The class pattern with only the parenthesis behind the name.
patternClassParenthesisOnly ==
  [alternatives |->
     << <<Star(WhiteSpaceChars)>> \o Literal(<<"c", "l", "a", "s", "s">>)
          \o <<Plus(WhiteSpaceChars)>> \o IdentifierGroup
          \o <<Star(WhiteSpaceChars), One({"("})>> >>,
   anchoredEnd |-> FALSE, group |-> 8]

\* /^\s*class\s+([A-Za-z_][A-Za-z0-9_]*)\s*[\(:]/
patternClass ==
  [alternatives |->
     << <<Star(WhiteSpaceChars)>> \o Literal(<<"c", "l", "a", "s", "s">>)
          \o <<Plus(WhiteSpaceChars)>> \o IdentifierGroup
          \o <<Star(WhiteSpaceChars), One({"(", ":"})>> >>,
   anchoredEnd |-> FALSE, group |-> 8]

\* /^\s*([A-Za-z_][A-Za-z0-9_]*)\s*(?::[^=]+)?=/ : the greedy optional
\* group is tried present first, absent second.
patternAssignment ==
  [alternatives |->
     << <<Star(WhiteSpaceChars)>> \o IdentifierGroup
          \o <<Star(WhiteSpaceChars), One({":"}), PlusNot({"="}), One({"="})>>,
        <<Star(WhiteSpaceChars)>> \o IdentifierGroup
          \o <<Star(WhiteSpaceChars), One({"="})>> >>,
   anchoredEnd |-> FALSE, group |-> 2]

\* /^\s*([A-Za-z_][A-Za-z0-9_]*)\s*:\s*[^=]+$/
patternAnnotation ==
  [alternatives |->
     << <<Star(WhiteSpaceChars)>> \o IdentifierGroup
          \o <<Star(WhiteSpaceChars), One({":"}), Star(WhiteSpaceChars),
               PlusNot({"="})>> >>,
   anchoredEnd |-> TRUE, group |-> 2]

\* const patterns = [...]
patterns ==
  <<patternAsyncDef, patternDef, patternClass, patternAssignment,
    patternAnnotation>>

\* for (const pattern of patterns), from the k-th pattern on.
RECURSIVE extractSymbolNameLoop(_, _)
extractSymbolNameLoop(line, k) ==
  IF k > Len(patterns) THEN Undefined
  ELSE LET captured == RegexCapture(patterns[k], line, 1)
       IN  IF captured # Undefined /\ captured # <<>> THEN captured
           ELSE extractSymbolNameLoop(line, k + 1)

\* export function extractSymbolNameFromLine(line): string | undefined
extractSymbolNameFromLine(line) == extractSymbolNameLoop(line, 1)

\* ------------------------------------------------------------------ inputs

\* All strings over the alphabet chars of length at most n.
StringsUpTo(chars, n) == UNION {[1..k -> chars] : k \in 0..n}

\* Raw settings and raw paths: white space, both separators, a name, a dot.
RawChars == {" ", "/", "\\", "a", "."}

RawStrings == StringsUpTo(RawChars, MaxRawLen)

\* Segments for hasPrefix.
SegmentNames == {<<"s", "r", "c">>, <<"S", "r", "c">>, <<"p", "k", "g">>}

SegmentLists == StringsUpTo(SegmentNames, MaxSegs)

\* Source lines: up to MaxTokens of these tokens one after the other.
LineTokens ==
  {<<"a", "s", "y", "n", "c", " ">>, <<"d", "e", "f", " ">>,
   <<"c", "l", "a", "s", "s", " ">>, <<"f">>, <<" ">>, <<"(">>, <<":">>,
   <<"=">>, <<"1">>}

SourceLines == {Join(ts, <<>>) : ts \in StringsUpTo(LineTokens, MaxTokens)}

\* The workspace folder and a sibling folder.
WorkspaceRoot == <<"/", "w">>

SiblingFolder == <<"/", "e">>

\* Directory names: the source root, a package, a name that begins with two
\* dots, a name with a backslash (one name on POSIX, two on win32).
DirNames ==
  {<<"s", "r", "c">>, <<"p", "k", "g">>, <<".", ".", "a">>,
   <<"a", "\\", "b">>}

DirLists == StringsUpTo(DirNames, MaxDepth)

FileStems == {<<"m">>, InitStem, <<"a", "\\", "b">>}

FileExtensions == {DotPy, <<".", "P", "Y", "I">>, <<".", "t", "x", "t">>}

\* File names: every stem with every extension, a name without extension,
\* a name that is nothing but '.py'.
BaseNames ==
  {st \o e : st \in FileStems, e \in FileExtensions} \cup {<<"m">>, DotPy}

\* The files below the workspace folder.
InsideFiles ==
  {WorkspaceRoot \o <<"/">> \o Join(dirs \o <<base>>, <<"/">>) :
     dirs \in DirLists, base \in BaseNames}

\* The workspace folder itself, the files of the folder above it, and the
\* files of the sibling folder.
OutsideFiles ==
  {WorkspaceRoot} \cup
  {pre \o <<"/">> \o base : pre \in {<<>>, SiblingFolder}, base \in BaseNames}

\* Absolute, normalized paths.
FilePaths == InsideFiles \cup OutsideFiles

SourceRoots ==
  {<<>>, <<"s", "r", "c">>, <<"S", "r", "c">>,
   <<"s", "r", "c", "/", "p", "k", "g">>}

WorkspacePackageNames ==
  {Undefined, <<"w", "s">>, <<"m", "y", "-", "w", "s">>, <<" ", "w", "s">>}

\* The options bundle: the two properties of ToPythonModulePathOptions, and
\* a caseSensitive property, which a caller can pass and the code never
\* reads.
OptionBundles ==
  [workspacePackageName : WorkspacePackageNames,
   platform : {"absent", "linux", "win32"},
   caseSensitive : {"absent", "true", "false"}]

\* --------------------------------------------- extension.ts, the command

\* undefined, where the code expects an object.
NoObject == [undefined |-> TRUE]

IsObject(value) == "undefined" \notin DOMAIN value

\* The truthiness of a string | undefined: if (value), !value.
IsTruthyOrEmpty(value) == value # Undefined

IsTruthy(value) == value # Undefined /\ value # <<>>

\* vscode.Uri of a file.
FileUri(path) == [scheme |-> "file", path |-> path]

\* Uri.fsPath of a uri without authority and drive letter: the path, with
\* the separators of the host.
FsPath(uri, host) ==
  IF host = "win32"
  THEN [i \in 1..Len(uri.path) |->
          IF uri.path[i] = "/" THEN "\\" ELSE uri.path[i]]
  ELSE uri.path

\* vscode.Uri.joinPath(uri, name)
JoinPath(uri, name) == [uri EXCEPT !.path = @ \o <<"/">> \o name]

\* vscode.workspace.getWorkspaceFolder(uri) of a workspace of one folder:
\* the path of the folder that is or contains the uri, or undefined.
getWorkspaceFolder(uri, folder) ==
  IF /\ uri.scheme = "file"
     /\ \/ uri.path = folder
        \/ StartsWith(uri.path, folder \o <<"/">>)
  THEN folder
  ELSE Undefined

\* vscode.Position and vscode.Range.
Position(line, character) == [line |-> line, character |-> character]

RangeOf(startLine, startCharacter, endLine, endCharacter) ==
  [start |-> Position(startLine, startCharacter),
   end |-> Position(endLine, endCharacter)]

IsBefore(a, b) ==
  a.line < b.line \/ (a.line = b.line /\ a.character < b.character)

\* range.contains(position)
contains(range, position) ==
  ~IsBefore(position, range.start) /\ ~IsBefore(range.end, position)

rangeSize(range) ==
  (range.end.line - range.start.line) * 10000
    + (range.end.character - range.start.character)

\* A vscode.LocationLink has a targetUri, a vscode.Location has not.
getDefinitionUri(definition) ==
  IF "targetUri" \in DOMAIN definition THEN definition.targetUri
  ELSE definition.uri

getDefinitionPosition(definition) ==
  IF "targetUri" \in DOMAIN definition
  THEN IF "targetSelectionRange" \in DOMAIN definition
       THEN definition.targetSelectionRange.start
       ELSE definition.targetRange.start
  ELSE definition.range.start

\* The least index of a set of indices, 0 if there is none: the item that
\* Array.prototype.find returns.
FirstIndex(indices) == IF indices = {} THEN 0 ELSE SetMin(indices)

\* getBestDefinition, from the answer of vscode.executeDefinitionProvider:
\* undefined, or the array of definitions.
getBestDefinition(answer, folder) ==
  IF ~IsObject(answer) THEN NoObject
  ELSE IF Len(answer.items) = 0 THEN NoObject
  ELSE LET definitions == answer.items
           inWorkspace ==
             FirstIndex(
               {i \in 1..Len(definitions) :
                  /\ getDefinitionUri(definitions[i]).scheme = "file"
                  /\ getWorkspaceFolder(getDefinitionUri(definitions[i]),
                                        folder) # Undefined})
           file ==
             FirstIndex(
               {i \in 1..Len(definitions) :
                  getDefinitionUri(definitions[i]).scheme = "file"})
       IN  IF inWorkspace > 0 THEN definitions[inWorkspace]
           ELSE IF file > 0 THEN definitions[file]
           ELSE definitions[1]

\* The loop of findMostSpecificDocumentSymbol, from symbol i on with the
\* best symbol so far; it descends into the children of a symbol whose
\* range contains the position.
RECURSIVE findMostSpecificLoop(_, _, _, _)
findMostSpecificLoop(symbols, position, i, best) ==
  IF i > Len(symbols) THEN best
  ELSE IF ~contains(symbols[i].range, position)
  THEN findMostSpecificLoop(symbols, position, i + 1, best)
  ELSE LET childMatch ==
             findMostSpecificLoop(symbols[i].children, position, 1, NoObject)
           candidate == IF IsObject(childMatch) THEN childMatch ELSE symbols[i]
       IN  IF ~IsObject(best)
           THEN findMostSpecificLoop(symbols, position, i + 1, candidate)
           ELSE IF rangeSize(candidate.range) < rangeSize(best.range)
           THEN findMostSpecificLoop(symbols, position, i + 1, candidate)
           ELSE findMostSpecificLoop(symbols, position, i + 1, best)

findMostSpecificDocumentSymbol(symbols, position) ==
  findMostSpecificLoop(symbols, position, 1, NoObject)

\* Array.prototype.filter: the items at the indices kept, in their order.
RECURSIVE ItemsAt(_, _)
ItemsAt(items, indices) ==
  IF indices = {} THEN <<>>
  ELSE <<items[SetMin(indices)]>> \o ItemsAt(items, indices \ {SetMin(indices)})

\* getSymbolNameFromDocumentSymbols, from the answer of
\* vscode.executeDocumentSymbolProvider: undefined, or an array of
\* DocumentSymbol and SymbolInformation objects.
getSymbolNameFromDocumentSymbols(answer, position) ==
  IF ~IsObject(answer) THEN Undefined
  ELSE IF Len(answer.items) = 0 THEN Undefined
  ELSE LET symbols == answer.items
           documentSymbols ==
             ItemsAt(symbols,
                     {i \in 1..Len(symbols) :
                        /\ "children" \in DOMAIN symbols[i]
                        /\ "range" \in DOMAIN symbols[i]})
           symbolInfos ==
             {i \in 1..Len(symbols) : "location" \in DOMAIN symbols[i]}
           match == findMostSpecificDocumentSymbol(documentSymbols, position)
           \* filter on the position, then the stable sort on rangeSize: the
           \* first of the sorted array is the earliest of the smallest.
           matches ==
             {i \in symbolInfos : contains(symbols[i].location.range, position)}
           smallest ==
             {i \in matches :
                \A j \in matches : rangeSize(symbols[i].location.range)
                                     <= rangeSize(symbols[j].location.range)}
       IN  IF Len(documentSymbols) > 0
           THEN IF IsObject(match) THEN match.name ELSE Undefined
           ELSE IF symbolInfos # {}
           THEN IF matches # {} THEN symbols[SetMin(smallest)].name
                ELSE Undefined
           ELSE Undefined

\* s.replace(/[\\/]+$/, '')
StripTrailingSeparators(s) ==
  LET keep == {i \in 1..Len(s) : ~IsSlashOrBackslash(s[i])}
  IN  IF keep = {} THEN <<>> ELSE SubSeq(s, 1, SetMax(keep))

pathBasename(fsPath) ==
  LET normalized == StripTrailingSeparators(fsPath)
      segments == FilterBoolean(SplitOnSeparatorRuns(normalized))
  IN  IF Len(segments) > 0 THEN segments[Len(segments)] ELSE <<>>

getConfiguredSourceRoot(pythonSourceRoot, host) ==
  normalizeSourceRoot(pythonSourceRoot, host)

\* `from ${symbolName} import ${modulePath}`: the two names exchanged.
FromImportExchanged(modulePath, symbolName) ==
  <<"f", "r", "o", "m", " ">> \o symbolName \o <<" ", "i", "m", "p", "o", "r", "t", " ">> \o modulePath

\* `from ${modulePath} import ${symbolName}`
FromImport(modulePath, symbolName) ==
  <<"f", "r", "o", "m", " ">> \o modulePath \o <<" ", "i", "m", "p", "o", "r", "t", " ">> \o symbolName

\* ------------------------------------------------ inputs of the command

\* The folder of the workspace: one whose name is a package name, one whose
\* name is not.
WorkspaceFolders == {WorkspaceRoot, <<"/", "m", "y", "-", "w">>}

\* The setting python-import-copier.pythonSourceRoot.
PythonSourceRoots == {<<>>, <<"p", "k", "g">>, <<" ", "p", "k", "g", "/">>}

\* vscode.window.activeTextEditor
Editors == {NoObject, [languageId |-> "python"], [languageId |-> "plaintext"]}

Workbenches ==
  [activeTextEditor : Editors, workspaceFolder : WorkspaceFolders,
   pythonSourceRoot : PythonSourceRoots]

DefaultWorkbench ==
  [activeTextEditor |-> NoObject, workspaceFolder |-> WorkspaceRoot,
   pythonSourceRoot |-> <<>>]

ModuleUri == FileUri(WorkspaceRoot \o <<"/", "p", "k", "g", "/", "m", ".", "p", "y">>)

\* In each folder a module of a package and the root __init__.py, a file
\* that is no Python file, and a document that is no file.
DefinitionUris ==
  {FileUri(folder \o rest) : folder \in WorkspaceFolders,
                             rest \in {<<"/", "p", "k", "g", "/", "m", ".", "p", "y">>, <<"/", "_", "_", "i", "n", "i", "t", "_", "_", ".", "p", "y">>}}
    \cup {FileUri(WorkspaceRoot \o <<"/", "m", ".", "t", "x", "t">>),
          [scheme |-> "untitled", path |-> <<"/", "w", "/", "u", ".", "p", "y">>]}

\* vscode.Location and vscode.LocationLink objects.
DefinitionResults ==
  {[uri |-> uri, range |-> RangeOf(1, 4, 1, 5)] : uri \in DefinitionUris}
    \cup {[targetUri |-> ModuleUri, targetRange |-> RangeOf(3, 0, 4, 0),
           targetSelectionRange |-> RangeOf(3, 4, 3, 5)],
          [targetUri |-> ModuleUri, targetRange |-> RangeOf(3, 0, 4, 0)]}

\* What vscode.executeDefinitionProvider resolves with.
DefinitionAnswers ==
  {NoObject} \cup
  {[items |-> items] : items \in StringsUpTo(DefinitionResults, MaxDefinitions)}

DocumentSymbol(name, range, children) ==
  [name |-> name, range |-> range, children |-> children]

SymbolInformation(name, range) ==
  [name |-> name, location |-> [range |-> range]]

\* What vscode.executeDocumentSymbolProvider resolves with: nothing, a
\* class with a method, a symbol elsewhere, two overlapping symbols in both
\* orders, symbol informations, one without a name, and a mix.
SymbolAnswers ==
  {NoObject,
   [items |-> <<>>],
   [items |-> <<DocumentSymbol(<<"C">>, RangeOf(0, 0, 5, 0),
                  <<DocumentSymbol(<<"f">>, RangeOf(1, 0, 2, 0), <<>>)>>)>>],
   [items |-> <<DocumentSymbol(<<"g">>, RangeOf(6, 0, 7, 0), <<>>)>>],
   [items |-> <<DocumentSymbol(<<"A">>, RangeOf(0, 0, 9, 0), <<>>),
                DocumentSymbol(<<"B">>, RangeOf(1, 0, 1, 9), <<>>)>>],
   [items |-> <<DocumentSymbol(<<"B">>, RangeOf(1, 0, 1, 9), <<>>),
                DocumentSymbol(<<"A">>, RangeOf(0, 0, 9, 0), <<>>)>>],
   [items |-> <<SymbolInformation(<<"H">>, RangeOf(0, 0, 9, 0)),
                SymbolInformation(<<"i">>, RangeOf(1, 0, 1, 9))>>],
   [items |-> <<SymbolInformation(<<>>, RangeOf(0, 0, 9, 0))>>],
   [items |-> <<SymbolInformation(<<"H">>, RangeOf(0, 0, 9, 0)),
                DocumentSymbol(<<"g">>, RangeOf(6, 0, 7, 0), <<>>)>>]}

\* The text of the line of the definition.
DefinitionLines ==
  {<<"d", "e", "f", " ", "f", "(">>, <<"c", "l", "a", "s", "s", " ", "C", ":">>, <<"x", " ", "=", " ", "1">>, <<"x">>, <<>>}

\* The word under the cursor of the source editor, undefined if there is
\* none.
CursorWords == {Undefined, <<"h">>}

\* ----------------------------------------------------------- state machine

VARIABLES
  platform,  \* process.platform, which is also the flavour of the path module
  fn,        \* the exported function called, "none" before the call
  args,      \* its arguments
  ret,       \* its return value
  locals,    \* the locals of toPythonModulePath at its return
  workbench,        \* the active editor, the workspace folder, the setting
  pc,               \* where the run of the command is: the call it awaits
  definition,       \* copyPythonImport: definition
  modulePath,       \* copyPythonImport: modulePath
  symbolName,       \* copyPythonImport: symbolName
  importStatement,  \* copyPythonImport: importStatement
  steps,            \* the steps the run has started, in their order
  tried,            \* resolveSymbolName: the strategies that have yielded
  clipboard,        \* the text of the clipboard
  notifications     \* the messages shown to the user

coreVars == <<fn, args, ret, locals>>

commandVars ==
  <<workbench, pc, definition, modulePath, symbolName, importStatement,
    steps, tried, clipboard, notifications>>

vars == <<platform, coreVars, commandVars>>

\* No exported function called yet.
CoreIdle ==
  /\ fn = "none"
  /\ args = <<>>
  /\ ret = Undefined
  /\ locals = NoLocals

\* The command not invoked yet.
CommandIdle ==
  /\ pc = "idle"
  /\ definition = NoObject
  /\ modulePath = Undefined
  /\ symbolName = Undefined
  /\ importStatement = Undefined
  /\ steps = <<>>
  /\ tried = <<>>
  /\ clipboard = <<>>
  /\ notifications = <<>>

Init ==
  /\ platform \in Hosts
  /\ CoreIdle
  /\ workbench = DefaultWorkbench
  /\ CommandIdle

CallNormalizeSourceRoot ==
  /\ fn = "none"
  /\ \E raw \in RawStrings :
       /\ args' = [raw |-> raw]
       /\ ret' = normalizeSourceRoot(raw, platform)
  /\ fn' = "normalizeSourceRoot"
  /\ UNCHANGED <<platform, locals>>
  /\ UNCHANGED commandVars

CallSplitPath ==
  /\ fn = "none"
  /\ \E input \in RawStrings :
       /\ args' = [input |-> input]
       /\ ret' = splitPath(input)
  /\ fn' = "splitPath"
  /\ UNCHANGED <<platform, locals>>
  /\ UNCHANGED commandVars

CallHasPrefix ==
  /\ fn = "none"
  /\ \E input \in SegmentLists, prefix \in SegmentLists,
        caseSensitive \in BOOLEAN :
       /\ args' = [input |-> input, prefix |-> prefix,
                   caseSensitive |-> caseSensitive]
       /\ ret' = hasPrefix(input, prefix, caseSensitive)
  /\ fn' = "hasPrefix"
  /\ UNCHANGED <<platform, locals>>
  /\ UNCHANGED commandVars

CallToPythonModulePath ==
  /\ fn = "none"
  /\ \E filePath \in FilePaths, sourceRoot \in SourceRoots,
        options \in OptionBundles :
       LET r == toPythonModulePath(filePath, WorkspaceRoot, sourceRoot,
                                   options, platform)
       IN  /\ args' = [filePath |-> filePath,
                       workspaceRootPath |-> WorkspaceRoot,
                       sourceRoot |-> sourceRoot, options |-> options]
           /\ ret' = r.ret
           /\ locals' = r
  /\ fn' = "toPythonModulePath"
  /\ UNCHANGED platform
  /\ UNCHANGED commandVars

CallExtractSymbolNameFromLine ==
  /\ fn = "none"
  /\ \E line \in SourceLines :
       /\ args' = [line |-> line]
       /\ ret' = extractSymbolNameFromLine(line)
  /\ fn' = "extractSymbolNameFromLine"
  /\ UNCHANGED <<platform, locals>>
  /\ UNCHANGED commandVars

Next ==
  \/ CallNormalizeSourceRoot
  \/ CallSplitPath
  \/ CallHasPrefix
  \/ CallToPythonModulePath

Spec == Init /\ [][Next]_vars

\* The calls of extractSymbolNameFromLine, on their own.
NextExtract == CallExtractSymbolNameFromLine

SpecExtract == Init /\ [][NextExtract]_vars

\* ------------------------------------------------- one run of the command

InitCommand ==
  /\ platform \in Hosts
  /\ CoreIdle
  /\ workbench \in Workbenches
  /\ CommandIdle

\* An error thrown in copyPythonImport: the catch of the command handler
\* shows 'Python Import Copier: Could not copy import. ' and the message.
Throw(message) ==
  /\ pc' = "done"
  /\ notifications' =
       Append(notifications,
              [kind |-> "error", message |-> message, statement |-> <<>>])

\* The command is invoked: copyPythonImport up to its first await.
InvokeCopyPythonImport ==
  /\ pc = "idle"
  /\ LET editor == workbench.activeTextEditor
     IN  IF ~IsObject(editor)
         THEN Throw("No active editor found.") /\ steps' = steps
         ELSE IF editor.languageId # "python"
         THEN Throw("Active editor is not a Python file.") /\ steps' = steps
         ELSE /\ pc' = "executeDefinitionProvider"
              /\ steps' = Append(steps, "definition")
              /\ notifications' = notifications
  /\ UNCHANGED <<definition, modulePath, symbolName, importStatement, tried,
                 clipboard>>
  /\ UNCHANGED <<platform, coreVars, workbench>>

\* copyPythonImport, the call of toPythonModulePath: the module path of a
\* definition in the workspace folder.
resolveModulePath(definitionUri, workspaceFolder, pythonSourceRoot, host) ==
  toPythonModulePath(
    FsPath(definitionUri, host),
    FsPath(FileUri(workspaceFolder), host),
    getConfiguredSourceRoot(pythonSourceRoot, host),
    [workspacePackageName |->
       pathBasename(FsPath(FileUri(workspaceFolder), host)),
     platform |-> host, caseSensitive |-> "absent"],
    host).ret

\* copyPythonImport from the module path to the call of the document symbol
\* provider in resolveSymbolName.
ModulePathResolved(definitionUri, resolved) ==
  /\ modulePath' = resolved
  /\ IF ~IsTruthy(resolved)
     THEN /\ steps' = Append(steps, "modulePath")
          /\ IF FsPath(definitionUri, platform)
                  = FsPath(JoinPath(FileUri(workbench.workspaceFolder),
                                    <<"_", "_", "i", "n", "i", "t", "_", "_", ".", "p", "y">>), platform)
             THEN Throw("Definition points to a workspace-root __init__.py.")
             ELSE Throw("Could not determine a Python module path.")
     ELSE /\ steps' = steps \o <<"modulePath", "symbolName">>
          /\ pc' = "executeDocumentSymbolProvider"
          /\ notifications' = notifications

\* copyPythonImport from the definition getBestDefinition returns to the
\* module path.
DefinitionFound(best) ==
  /\ definition' = best
  /\ IF ~IsObject(best)
     THEN /\ Throw("Definition not found for the symbol under the cursor.")
          /\ UNCHANGED <<modulePath, steps>>
     ELSE IF getDefinitionUri(best).scheme # "file"
     THEN /\ Throw("Definition is not in a local file.")
          /\ UNCHANGED <<modulePath, steps>>
     ELSE IF getWorkspaceFolder(getDefinitionUri(best),
                                workbench.workspaceFolder) = Undefined
     THEN /\ Throw("Definition file is outside the current workspace.")
          /\ UNCHANGED <<modulePath, steps>>
     ELSE ModulePathResolved(
            getDefinitionUri(best),
            resolveModulePath(getDefinitionUri(best),
                              workbench.workspaceFolder,
                              workbench.pythonSourceRoot, platform))

\* vscode.executeDefinitionProvider resolves, or rejects.
DefinitionProviderReturns ==
  /\ pc = "executeDefinitionProvider"
  /\ \/ \E answer \in DefinitionAnswers :
          DefinitionFound(getBestDefinition(answer, workbench.workspaceFolder))
     \/ /\ Throw("rejected: executeDefinitionProvider")
        /\ UNCHANGED <<definition, modulePath, steps>>
  /\ UNCHANGED <<symbolName, importStatement, tried, clipboard>>
  /\ UNCHANGED <<platform, coreVars, workbench>>

\* resolveSymbolName returns the name: copyPythonImport up to the call of
\* clipboard.writeText.
ReturnSymbolName(name) ==
  /\ symbolName' = name
  /\ IF ~IsTruthy(name)
     THEN /\ Throw("Could not determine the symbol name at definition.")
          /\ UNCHANGED <<importStatement, steps>>
     ELSE /\ importStatement' = FromImport(modulePath, name)
          /\ steps' = Append(steps, "clipboard")
          /\ pc' = "writeText"
          /\ notifications' = notifications

\* resolveSymbolName from the name of the document symbols on.
DocumentSymbolsYield(byDocumentSymbols) ==
  /\ tried' = Append(tried, [strategy |-> "documentSymbols",
                             name |-> byDocumentSymbols])
  /\ IF IsTruthy(byDocumentSymbols)
     THEN ReturnSymbolName(byDocumentSymbols)
     ELSE /\ pc' = "openTextDocument"
          /\ UNCHANGED <<symbolName, importStatement, steps, notifications>>

\* vscode.executeDocumentSymbolProvider resolves, or rejects.
DocumentSymbolProviderReturns ==
  /\ pc = "executeDocumentSymbolProvider"
  /\ \/ \E answer \in SymbolAnswers :
          DocumentSymbolsYield(
            getSymbolNameFromDocumentSymbols(
              answer, getDefinitionPosition(definition)))
     \/ /\ Throw("rejected: executeDocumentSymbolProvider")
        /\ UNCHANGED <<symbolName, importStatement, steps, tried>>
  /\ UNCHANGED <<definition, modulePath, clipboard>>
  /\ UNCHANGED <<platform, coreVars, workbench>>

\* resolveSymbolName from the name of the definition line on; word is the
\* word at the cursor of the source editor.
DefinitionLineYields(byDefinitionLine, word) ==
  IF IsTruthy(byDefinitionLine)
  THEN /\ tried' = Append(tried, [strategy |-> "definitionLine",
                                  name |-> byDefinitionLine])
       /\ ReturnSymbolName(byDefinitionLine)
  ELSE /\ tried' = tried \o
                     <<[strategy |-> "definitionLine",
                        name |-> byDefinitionLine],
                       [strategy |-> "cursorWord", name |-> word]>>
       /\ ReturnSymbolName(word)

\* vscode.workspace.openTextDocument resolves and the line of the
\* definition is read, or it rejects or the document has no such line.
OpenTextDocumentReturns ==
  /\ pc = "openTextDocument"
  /\ \/ \E line \in DefinitionLines, word \in CursorWords :
          DefinitionLineYields(extractSymbolNameFromLine(line), word)
     \/ /\ Throw("rejected: openTextDocument")
        /\ UNCHANGED <<symbolName, importStatement, steps, tried>>
  /\ UNCHANGED <<definition, modulePath, clipboard>>
  /\ UNCHANGED <<platform, coreVars, workbench>>

\* vscode.env.clipboard.writeText resolves and the information message is
\* shown, or it rejects, with the text written or not.
ClipboardWriteReturns ==
  /\ pc = "writeText"
  /\ \/ /\ clipboard' = importStatement
        /\ pc' = "done"
        /\ notifications' =
             Append(notifications,
                    [kind |-> "information",
                     message |-> "Copied Python import: ",
                     statement |-> importStatement])
     \/ /\ clipboard' \in {clipboard, importStatement}
        /\ Throw("rejected: clipboard.writeText")
  /\ UNCHANGED <<definition, modulePath, symbolName, importStatement, steps,
                 tried>>
  /\ UNCHANGED <<platform, coreVars, workbench>>

NextCommand ==
  \/ InvokeCopyPythonImport
  \/ DefinitionProviderReturns
  \/ DocumentSymbolProviderReturns
  \/ OpenTextDocumentReturns
  \/ ClipboardWriteReturns

SpecCommand == InitCommand /\ [][NextCommand]_vars

\* ------------------------------------------- notions the properties use

Called(f) == fn = f

\* The file lies strictly inside the root: its path is the root's path, a
\* separator, and something more (both paths are absolute and normalized).
StrictlyInside(filePath, rootPath) ==
  /\ Len(filePath) > Len(rootPath) + 1
  /\ SubSeq(filePath, 1, Len(rootPath)) = rootPath
  /\ filePath[Len(rootPath) + 1] = "/"

\* Index of the last separator of the host in the path.
LastSeparatorIndex(filePath, host) ==
  SetMax({i \in 1..Len(filePath) : IsPathSeparator(filePath[i], host)})

\* The file's name, and its root-relative directory, on the host.
FileNameOf(filePath, host) ==
  SubSeq(filePath, LastSeparatorIndex(filePath, host) + 1, Len(filePath))

RelativeDirOf(filePath, rootPath, host) ==
  SubSeq(filePath, Len(rootPath) + 2, LastSeparatorIndex(filePath, host) - 1)

EndsWithIgnoringCase(s, suffix) ==
  /\ Len(s) >= Len(suffix)
  /\ ToLowerCase(SubSeq(s, Len(s) - Len(suffix) + 1, Len(s))) = suffix

\* The extension of the file name, compared case-insensitively, is .py or
\* .pyi: the name is a non-empty stem followed by one of the two.
PythonExtensionOf(name) ==
  IF Len(name) > Len(DotPyi) /\ EndsWithIgnoringCase(name, DotPyi)
  THEN DotPyi
  ELSE IF Len(name) > Len(DotPy) /\ EndsWithIgnoringCase(name, DotPy)
  THEN DotPy
  ELSE <<>>

IsPythonFileName(name) == PythonExtensionOf(name) # <<>>

StemOf(name) == SubSeq(name, 1, Len(name) - Len(PythonExtensionOf(name)))

\* The maximal runs of non-separator characters of s, from left to right.
MaximalRuns(s) ==
  LET nonSep(i) == ~IsSlashOrBackslash(s[i])
      starts == {i \in 1..Len(s) : nonSep(i) /\ (i = 1 \/ ~nonSep(i - 1))}
      endOf(i) == SetMax({j \in i..Len(s) : \A m \in i..j : nonSep(m)})
      kth(k) == CHOOSE i \in starts :
                  Cardinality({j \in starts : j < i}) = k - 1
  IN  [k \in 1..Cardinality(starts) |-> SubSeq(s, kth(k), endOf(kth(k)))]

\* The strings that differ from s in one separator's style, in one
\* duplicated separator, or in one more leading or trailing separator.
SeparatorVariants(s) ==
  LET other(c) == IF c = "/" THEN "\\" ELSE "/"
      sepAt == {i \in 1..Len(s) : IsSlashOrBackslash(s[i])}
  IN  {[s EXCEPT ![i] = other(s[i])] : i \in sepAt}
      \cup {SubSeq(s, 1, i) \o <<c>> \o SubSeq(s, i + 1, Len(s)) :
              i \in sepAt, c \in SlashOrBackslash}
      \cup {<<c>> \o s : c \in SlashOrBackslash}
      \cup {Append(s, c) : c \in SlashOrBackslash}

\* The name matches [A-Za-z_][A-Za-z0-9_]*.
MatchesIdentifierPattern(name) ==
  LET letters == Range(UpperCaseLetters) \cup Range(LowerCaseLetters)
  IN  /\ Len(name) >= 1
      /\ name[1] \in letters \cup {"_"}
      /\ \A i \in 2..Len(name) : name[i] \in letters \cup Digits \cup {"_"}

HasSeparator(s) == \E i \in 1..Len(s) : s[i] \in {"/", "\\"}

\* The call of toPythonModulePath got past the root and extension checks,
\* to the source-root step.
ReachedSegments ==
  /\ Called("toPythonModulePath")
  /\ locals.at \in {"package", "workspacePackage", "rootInit", "module",
                    "empty"}

\* The directory segments the call holds after the source-root step.
SegmentsAfterStripping ==
  IF locals.at \in {"module", "empty"}
  THEN SubSeq(locals.segments, 1, Len(locals.segments) - 1)
  ELSE locals.segments

\* prefix is a prefix of input, element by element, exactly or in lower case.
IsSegmentPrefix(input, prefix, caseSensitive) ==
  /\ Len(prefix) > 0
  /\ Len(prefix) <= Len(input)
  /\ \A i \in 1..Len(prefix) :
       IF caseSensitive THEN input[i] = prefix[i]
       ELSE ToLowerCase(input[i]) = ToLowerCase(prefix[i])

\* ------------------------------------------------------------ properties

\* The root-level package initializer case of C1: the file is an __init__
\* file, no directory segment is left after source-root stripping, and no
\* workspacePackageName matching the identifier pattern was supplied.
C1_RootInitializerWithoutName ==
  LET name == FileNameOf(args.filePath, platform)
      dirSegments == splitPath(RelativeDirOf(args.filePath,
                                             args.workspaceRootPath, platform))
      stripped == IF args.sourceRoot = <<>> THEN dirSegments
                  ELSE stripSourceRoot(dirSegments, splitPath(args.sourceRoot),
                                       caseSensitiveFor(args.options, platform))
  IN  /\ StemOf(name) = InitStem
      /\ stripped = <<>>
      /\ ~ /\ args.options.workspacePackageName # Undefined
           /\ MatchesIdentifierPattern(args.options.workspacePackageName)

\* C1: toPythonModulePath returns undefined if and only if the file is not
\* strictly inside the root, or its extension is neither .py nor .pyi
\* (case-insensitively), or it is a root-level __init__ file for which no
\* workspacePackageName matching the identifier pattern was supplied.
C1_UndefinedOnlyForEnumeratedCauses ==
  Called("toPythonModulePath") =>
    (ret = Undefined <=>
       \/ ~StrictlyInside(args.filePath, args.workspaceRootPath)
       \/ ~IsPythonFileName(FileNameOf(args.filePath, platform))
       \/ C1_RootInitializerWithoutName)

\* C2: a module path that toPythonModulePath returns is non-empty, contains
\* neither '/' nor '\', and is the non-empty segments the call holds, in the
\* order of the file's directories, joined by '.'.
C2_ModulePathWellFormed ==
  (Called("toPythonModulePath") /\ ret # Undefined) =>
    /\ ret # <<>>
    /\ ~HasSeparator(ret)
    /\ locals.at \in {"package", "module"} =>
         /\ ret = Join(locals.segments, <<".">>)
         /\ \A i \in 1..Len(locals.segments) : locals.segments[i] # <<>>
         /\ \E k \in 0..Len(locals.dirSegments) :
              SegmentsAfterStripping =
                SubSeq(locals.dirSegments, k + 1, Len(locals.dirSegments))

\* C3: normalizeSourceRoot is idempotent: normalizing its result again
\* gives the same string.
C3_NormalizeSourceRootIdempotent ==
  Called("normalizeSourceRoot") => normalizeSourceRoot(ret, platform) = ret

\* C4: for a .py or .pyi file strictly inside the root whose stem is not
\* __init__, and an empty sourceRoot, toPythonModulePath returns the
\* root-relative directory segments followed by the stem, joined by '.'.
C4_OrdinaryModulePath ==
  LET name == FileNameOf(args.filePath, platform)
      dirSegments == splitPath(RelativeDirOf(args.filePath,
                                             args.workspaceRootPath, platform))
  IN  ( /\ Called("toPythonModulePath")
        /\ StrictlyInside(args.filePath, args.workspaceRootPath)
        /\ IsPythonFileName(name)
        /\ StemOf(name) # InitStem
        /\ args.sourceRoot = <<>> )
      => ret = Join(Append(dirSegments, StemOf(name)), <<".">>)

\* C5: when a non-empty sourceRoot is configured and its segments are a
\* prefix of the file's directory segments (as hasPrefix compares them),
\* exactly that many leading segments are removed and the rest is kept in
\* order; otherwise no segment is removed.  The result is built from what
\* is kept.
C5_SourceRootStripping ==
  ReachedSegments =>
    LET dirSegments == splitPath(RelativeDirOf(args.filePath,
                                   args.workspaceRootPath, platform))
        sourceSegments == splitPath(args.sourceRoot)
        kept == IF /\ args.sourceRoot # <<>>
                   /\ IsSegmentPrefix(dirSegments, sourceSegments,
                                      locals.caseSensitive)
                THEN SubSeq(dirSegments, Len(sourceSegments) + 1,
                            Len(dirSegments))
                ELSE dirSegments
    IN  /\ SegmentsAfterStripping = kept
        /\ locals.at = "module" =>
             ret = Join(Append(kept, locals.stem), <<".">>)
        /\ locals.at = "package" => ret = Join(kept, <<".">>)

\* C5 witness: src/pkg/m.py with source root 'src/pkg' gave 'm'.
C5_Witness ==
  /\ Called("toPythonModulePath")
  /\ args.sourceRoot = <<"s", "r", "c", "/", "p", "k", "g">>
  /\ locals.dirSegments = <<<<"s", "r", "c">>, <<"p", "k", "g">>>>
  /\ ret = <<"m">>

\* C6 as stated: for an __init__ file, the result is the remaining
\* directory segments joined by '.' when there are any; otherwise it is the
\* supplied workspacePackageName when that matches the identifier pattern,
\* and undefined otherwise.
C6_InitializerAsStated ==
  (ReachedSegments /\ locals.stem = InitStem) =>
    IF SegmentsAfterStripping # <<>>
    THEN ret = Join(SegmentsAfterStripping, <<".">>)
    ELSE LET name == args.options.workspacePackageName
         IN  IF name # Undefined /\ MatchesIdentifierPattern(name)
             THEN ret = name
             ELSE ret = Undefined

\* C6 amended: for an __init__ file, the result is the remaining directory
\* segments joined by '.' when there are any; otherwise it is the supplied
\* workspacePackageName with surrounding white space trimmed when the
\* trimmed name matches the identifier pattern, and undefined otherwise.
C6_Initializer ==
  (ReachedSegments /\ locals.stem = InitStem) =>
    IF SegmentsAfterStripping # <<>>
    THEN ret = Join(SegmentsAfterStripping, <<".">>)
    ELSE LET name == args.options.workspacePackageName
         IN  IF name # Undefined /\ MatchesIdentifierPattern(Trim(name))
             THEN ret = Trim(name)
             ELSE ret = Undefined

\* C6 witness: a root-level __init__ file whose workspacePackageName ' ws'
\* was returned as 'ws'.
C6_Witness ==
  /\ ReachedSegments
  /\ locals.stem = InitStem
  /\ SegmentsAfterStripping = <<>>
  /\ args.options.workspacePackageName = <<" ", "w", "s">>
  /\ ret = <<"w", "s">>

\* C7 as stated: the case sensitivity given to the prefix match is the
\* caller's explicit caseSensitive option when there is one; otherwise it
\* is case-insensitive exactly when the target platform is win32.
C7_CaseSensitivityAsStated ==
  (Called("toPythonModulePath") /\ locals.prefixTested) =>
    LET target == IF args.options.platform # "absent"
                  THEN args.options.platform ELSE platform
    IN  locals.caseSensitive =
          IF args.options.caseSensitive # "absent"
          THEN args.options.caseSensitive = "true"
          ELSE target # "win32"

\* C7 amended: the prefix match is case-insensitive exactly when
\* options.platform is win32, or options.platform is absent and
\* process.platform is win32; a caseSensitive option changes nothing.
C7_CaseSensitivity ==
  (Called("toPythonModulePath") /\ locals.prefixTested) =>
    (~locals.caseSensitive <=>
       \/ args.options.platform = "win32"
       \/ args.options.platform = "absent" /\ platform = "win32")

\* C7 witness: the caller asked for a case-sensitive match on platform
\* win32, and 'Src' was matched against 'src' and stripped.
C7_Witness ==
  /\ Called("toPythonModulePath")
  /\ locals.prefixTested
  /\ args.options.caseSensitive = "true"
  /\ args.options.platform = "win32"
  /\ args.sourceRoot = <<"S", "r", "c">>
  /\ locals.dirSegments = <<<<"s", "r", "c">>>>
  /\ ret = <<"m">>

\* C8: the result of toPythonModulePath depends on its arguments only: the
\* same arguments give the same result on every host.
C8_ResultIndependentOfHost ==
  Called("toPythonModulePath") =>
    \A host \in Hosts :
      toPythonModulePath(args.filePath, args.workspaceRootPath,
                         args.sourceRoot, args.options, host).ret = ret

\* The first two parts of C9: splitPath returns the empty sequence for ''
\* and '.', and otherwise the maximal runs of non-separator characters from
\* left to right, each of them non-empty and free of '/' and '\'.
C9_MaximalRuns ==
  /\ args.input \in {<<>>, <<".">>} => ret = <<>>
  /\ args.input \notin {<<>>, <<".">>} => ret = MaximalRuns(args.input)
  /\ \A i \in 1..Len(ret) : ret[i] # <<>> /\ ~HasSeparator(ret[i])

\* C9 as stated: the two parts above, and any input that differs from this
\* one only in separator style or in leading, trailing or duplicated
\* separators gives the same sequence.
C9_SplitPathAsStated ==
  Called("splitPath") =>
    /\ C9_MaximalRuns
    /\ \A other \in SeparatorVariants(args.input) : splitPath(other) = ret

\* C9 amended: the two parts above, and any input that differs from this
\* one only in separator style or in leading, trailing or duplicated
\* separators gives the same sequence, unless one of the two is exactly '.'.
C9_SplitPath ==
  Called("splitPath") =>
    /\ C9_MaximalRuns
    /\ args.input # <<".">> =>
         \A other \in SeparatorVariants(args.input) : splitPath(other) = ret

\* C9 witness: 'a\/a' was split into 'a', 'a'.
C9_Witness ==
  /\ Called("splitPath")
  /\ args.input = <<"a", "\\", "/", "a">>
  /\ ret = <<<<"a">>, <<"a">>>>

\* C10: hasPrefix is false when the prefix is empty or longer than the
\* input; otherwise it is true exactly when every element of the prefix
\* equals the element of the input at its index, both lowercased when
\* caseSensitive is false.
C10_HasPrefix ==
  Called("hasPrefix") =>
    /\ (Len(args.prefix) = 0 \/ Len(args.prefix) > Len(args.input))
         => ret = FALSE
    /\ (Len(args.prefix) > 0 /\ Len(args.prefix) <= Len(args.input)) =>
         (ret <=> \A i \in 1..Len(args.prefix) :
                    IF args.caseSensitive
                    THEN args.input[i] = args.prefix[i]
                    ELSE ToLowerCase(args.input[i])
                           = ToLowerCase(args.prefix[i]))

\* C10 witness: 'Src' was found to be a prefix of 'src', 'pkg' without
\* regard to case.
C10_Witness ==
  /\ Called("hasPrefix")
  /\ ~args.caseSensitive
  /\ args.input = <<<<"s", "r", "c">>, <<"p", "k", "g">>>>
  /\ args.prefix = <<<<"S", "r", "c">>>>
  /\ ret = TRUE

\* C12: the string normalizeSourceRoot returns has neither leading nor
\* trailing white space, neither a leading nor a trailing '/' or '\', and
\* is empty whenever the input is empty or white space only.
C12_NormalizedForm ==
  Called("normalizeSourceRoot") =>
    /\ ret # <<>> =>
         /\ ~IsWhiteSpace(ret[1]) /\ ~IsWhiteSpace(ret[Len(ret)])
         /\ ~IsSlashOrBackslash(ret[1]) /\ ~IsSlashOrBackslash(ret[Len(ret)])
    /\ (\A i \in 1..Len(args.raw) : IsWhiteSpace(args.raw[i])) => ret = <<>>

\* The characters a..b of the line are white space.
AllWhite(line, a, b) == \A k \in a..b : IsWhiteSpace(line[k])

\* The words of a text: its maximal runs free of white space.
WordsOf(text) == FilterBoolean(SplitFrom(text, 1, <<>>, {" ", "\t", "\n", "\r"}))

\* The characters j..e of the line are an identifier.
IsIdentifierAt(line, j, e) ==
  j <= e /\ MatchesIdentifierPattern(SubSeq(line, j, e))

\* Rules 1 to 3: the line is the keywords, each followed by white space,
\* the name at j..e, and then, after optional white space, a closer.
KeywordDeclarationAt(line, keywords, closers, j, e) ==
  /\ j > 1
  /\ IsWhiteSpace(line[j - 1])
  /\ WordsOf(SubSeq(line, 1, j - 1)) = keywords
  /\ IsIdentifierAt(line, j, e)
  /\ \E p \in (e + 1)..Len(line) :
       AllWhite(line, e + 1, p - 1) /\ line[p] \in closers

\* Rule 4: the name at j..e is the first thing on the line and is followed,
\* after optional white space, by '=' or by ':', an annotation of at least
\* one character without '=', and '='.
AssignmentAt(line, j, e) ==
  /\ AllWhite(line, 1, j - 1)
  /\ IsIdentifierAt(line, j, e)
  /\ \E p \in (e + 1)..Len(line) :
       /\ AllWhite(line, e + 1, p - 1)
       /\ \/ line[p] = "="
          \/ /\ line[p] = ":"
             /\ \E q \in (p + 2)..Len(line) :
                  line[q] = "=" /\ \A k \in (p + 1)..(q - 1) : line[k] # "="

\* Rule 5: the name at j..e is the first thing on the line and is followed,
\* after optional white space, by ':' and a non-empty rest without '='.
AnnotationAt(line, j, e) ==
  /\ AllWhite(line, 1, j - 1)
  /\ IsIdentifierAt(line, j, e)
  /\ \E p \in (e + 1)..(Len(line) - 1) :
       /\ AllWhite(line, e + 1, p - 1)
       /\ line[p] = ":"
       /\ \A k \in (p + 1)..Len(line) : line[k] # "="

\* The names each of the five rules, in their order, finds on the line.
RuleNames(line) ==
  LET \* Every rule has its name start the line or follow white space, and
      \* be followed by white space, '(', ':' or '='.
      starts == {j \in 1..Len(line) : j = 1 \/ IsWhiteSpace(line[j - 1])}
      ends == {e \in 1..(Len(line) - 1) :
                 IsWhiteSpace(line[e + 1]) \/ line[e + 1] \in {"(", ":", "="}}
      spans == {je \in starts \X ends : je[1] <= je[2]}
      names(Rule(_, _)) ==
        {SubSeq(line, je[1], je[2]) : je \in {x \in spans : Rule(x[1], x[2])}}
      AsyncDef(j, e) ==
        KeywordDeclarationAt(line, <<<<"a", "s", "y", "n", "c">>,
                                     <<"d", "e", "f">>>>, {"("}, j, e)
      Def(j, e) ==
        KeywordDeclarationAt(line, <<<<"d", "e", "f">>>>, {"("}, j, e)
      Class(j, e) ==
        KeywordDeclarationAt(line, <<<<"c", "l", "a", "s", "s">>>>,
                             {"(", ":"}, j, e)
      Assignment(j, e) == AssignmentAt(line, j, e)
      Annotation(j, e) == AnnotationAt(line, j, e)
  IN  <<names(AsyncDef), names(Def), names(Class), names(Assignment),
        names(Annotation)>>

\* C11: extractSymbolNameFromLine returns the name found by the first of
\* the five rules (async def, def, class, assignment, annotation) that
\* matches the line, and undefined exactly when none matches; a line that
\* is a function or class declaration yields the declared name; a returned
\* name is an identifier.
C11_FirstMatchingRule ==
  Called("extractSymbolNameFromLine") =>
    LET names == RuleNames(args.line)
        matching == {k \in 1..5 : names[k] # {}}
    IN  /\ ret = Undefined <=> matching = {}
        /\ matching # {} => names[SetMin(matching)] = {ret}
        /\ (names[1] \cup names[2] \cup names[3]) # {} =>
             ret \in (names[1] \cup names[2] \cup names[3])
        /\ ret # Undefined => MatchesIdentifierPattern(ret)

\* C11 witness: 'def f(=' is a function declaration with a '=' behind it,
\* and 'f' was returned.
C11_Witness ==
  /\ Called("extractSymbolNameFromLine")
  /\ args.line = <<"d", "e", "f", " ", "f", "(", "=">>
  /\ ret = <<"f">>

\* The steps of a run of the command, in the order of the claim.
StepOrder == <<"definition", "modulePath", "symbolName", "clipboard">>

IsPrefixOf(a, b) == Len(a) <= Len(b) /\ SubSeq(b, 1, Len(a)) = a

Started(step) == \E i \in 1..Len(steps) : steps[i] = step

\* The value is no name: undefined or the empty string.
YieldsNothing(name) == name = Undefined \/ name = <<>>

ErrorReported ==
  \E i \in 1..Len(notifications) : notifications[i].kind = "error"

\* C13: in a run of the command the steps started are, in this order, the
\* definition lookup, the module path, the symbol name and the clipboard
\* write; the clipboard is written only once a module path and a symbol
\* name are there, and then with 'from <modulePath> import <symbolName>';
\* when the module path comes out undefined the run has ended with an
\* error message, the symbol name was not started and the clipboard is not
\* written; a run that has ended has shown exactly one message, a success
\* notification or an error message, and a run that has not has shown none.
C13_CommandRun ==
  /\ IsPrefixOf(steps, StepOrder)
  /\ (Started("clipboard") \/ clipboard # <<>>) =>
       /\ steps = StepOrder
       /\ ~YieldsNothing(modulePath)
       /\ ~YieldsNothing(symbolName)
  /\ clipboard # <<>> =>
       clipboard = <<"f", "r", "o", "m", " ">> \o modulePath \o <<" ", "i", "m", "p", "o", "r", "t", " ">> \o symbolName
  /\ (Started("modulePath") /\ modulePath = Undefined) =>
       /\ pc = "done"
       /\ ErrorReported
       /\ ~Started("symbolName")
       /\ tried = <<>>
       /\ clipboard = <<>>
  /\ pc = "done" =>
       /\ Len(notifications) = 1
       /\ notifications[1].kind \in {"information", "error"}
       /\ notifications[1].kind = "information" =>
            /\ clipboard # <<>>
            /\ notifications[1].statement = clipboard
  /\ pc # "done" => notifications = <<>>

\* C13 witness: a run has ended with 'from pkg.m import f' in the clipboard
\* and the success notification.
C13_Witness ==
  /\ pc = "done"
  /\ steps = StepOrder
  /\ clipboard = <<"f", "r", "o", "m", " ", "p", "k", "g", ".", "m", " ", "i", "m", "p", "o", "r", "t", " ", "f">>
  /\ notifications[1].kind = "information"

\* The strategies of resolveSymbolName, in the order of the claim.
StrategyOrder == <<"documentSymbols", "definitionLine", "cursorWord">>

\* C14: the strategies that have yielded are the first ones of document
\* symbols, definition line, cursor word, in this order; a strategy is
\* tried only when every earlier one yielded nothing; a strategy that
\* yields a name is the last one tried and its name is the symbol name;
\* after a strategy that yields nothing the resolution goes on to the next
\* (or the run has failed), with no symbol name and nothing written.
C14_StrategyOrder ==
  /\ Len(tried) <= Len(StrategyOrder)
  /\ \A i \in 1..Len(tried) : tried[i].strategy = StrategyOrder[i]
  /\ \A i \in 1..Len(tried) :
       IF YieldsNothing(tried[i].name)
       THEN (i = Len(tried) /\ i < Len(StrategyOrder)) =>
              /\ symbolName = Undefined
              /\ clipboard = <<>>
              /\ \/ pc = "openTextDocument"
                 \/ pc = "done" /\ ErrorReported
       ELSE /\ i = Len(tried)
            /\ symbolName = tried[i].name
  /\ symbolName # Undefined =>
       tried # <<>> /\ symbolName = tried[Len(tried)].name
  /\ (tried = <<>> /\ pc # "done") =>
       pc \in {"idle", "executeDefinitionProvider",
               "executeDocumentSymbolProvider"}

\* C14 witness: the document symbols and the definition line yielded
\* nothing, and the word at the cursor became the symbol name that was
\* copied.
C14_Witness ==
  /\ Len(tried) = 3
  /\ YieldsNothing(tried[1].name)
  /\ YieldsNothing(tried[2].name)
  /\ tried[3].name = <<"h">>
  /\ symbolName = <<"h">>
  /\ clipboard # <<>>

====
